---------------------------- MODULE Spec2Model ----------------------------
(***************************************************************************)
(* Model of hosoken3/Control_motor:                                        *)
(*   src/main_robot_control.py  RobotController (connect, start_move,      *)
(*                              stop_move, _run_logic)                     *)
(*   src/waveshare_driver.py    STServoDriver (ping, _read_data,           *)
(*                              read_load, write_position, the lock)       *)
(*                                                                         *)
(* Spec     : the controller.  The foreground (main + GUI callbacks) and   *)
(*            the _run_logic threads it starts; one step per blocking call *)
(*            of the loop.  Driver calls are taken at call granularity,    *)
(*            their result computed from the per-attempt link outcomes.    *)
(* SpecDrv  : the driver.  Client threads run ping / _read_data /          *)
(*            write_position step by step against the serial port and the  *)
(*            RLock.                                                       *)
(***************************************************************************)
EXTENDS Integers, Sequences, FiniteSets, TLC

\* ------------------------------------------------------------------------
\* Program constants
\* ------------------------------------------------------------------------
STALL_THRESHOLD == 600
HOME_POSITION == 1024
RUN_DURATION == 10
retries == 3
load_sign_bit == 10

\* ------------------------------------------------------------------------
\* Bounds of the model
\* ------------------------------------------------------------------------
MaxThreads == 2      \* _run_logic threads that can be alive at once
MaxClients == 2      \* threads that call into one STServoDriver

Threads == 1..MaxThreads
Clients == 1..MaxClients

\* seconds per step of the clock: two steps pass the run-duration bound
TickStep == RUN_DURATION \div 2 + 1

\* "no value": Python None as returned by read_load / read_position
None == 0 - 1000000

\* Raw 16-bit register contents the device answers with.
\* load: 600 -> +600 (the threshold itself), 1724 = 2^10 + 700 -> -700
RawLoads == {600, 1724}
RawPositions == {1034, 1554}

\* How one request/response attempt on the link can end.
\*   valid    : a frame with a good checksum and the data asked for
\*   timeout  : PacketTimeoutError (no header / short payload)
\*   checksum : PacketChecksumError
\*   short    : a frame with a good checksum that carries fewer data bytes
\*              than the caller asked for
Outcomes == {"valid", "timeout", "checksum", "short"}
\* ping and write_position ask for no data, so no frame is short for them
OutcomesOf(op) == IF op = "read" THEN Outcomes ELSE Outcomes \ {"short"}
AttemptSeqs(op) == [1..retries -> OutcomesOf(op)]

VARIABLES
    \* ---- RobotController fields ----
    motor,            \* "none" | "open" | "closed"   self.motor and its port
    running,          \* self.running
    status_message,   \* self.status_message (tag of the text)
    current_pos,      \* self.current_pos
    current_load,     \* self.current_load
    \* ---- environment ----
    elapsed,          \* time.time() - self.start_time: the clock, read from
                      \* the latest assignment of start_time
    fg,               \* position of the foreground: "new" | "gui"
    \* ---- one _run_logic thread per slot ----
    pc,               \* position of the thread
    load,             \* local current_load of this tick
    pos,              \* local current_pos of this tick
    stall_detected,   \* local stall_detected
    stall_position,   \* local stall_position
    back_pos,         \* local target_back_pos
    \* ---- observation of the run (history) ----
    tickSkipped,      \* the thread's latest tick had a failed read
    corrWrites,       \* corrective write_position calls made by the thread
    timedOut,         \* the thread left the loop through the timeout break
    cancelled,        \* stop_move hit the thread between ticks, no start since
    hardFailures,     \* where write_position raised: "homing", "corrective"
    \* ---- STServoDriver, step level (SpecDrv) ----
    dpc,              \* position of each client thread inside its operation
    dop,              \* operation the client runs
    attempt,          \* loop index of the retry loop (1-based)
    hist,             \* outcomes of the attempts made so far in this call
    sent,             \* packets transmitted so far in this call
    result,           \* what the call returned
    lockOwner,        \* owner of self.lock, 0 when free
    \* ---- packet codec and register decode (SpecCodec) ----
    scen,             \* the inputs of the run: ids, bytes, garbage, bit flip
    cpc,              \* "start" | "wire" | "decoded" | "parsed"
    wire,             \* the bytes that arrive on the port before the deadline
    resp,             \* outcome of _read_response_raw on the wire
    value,            \* outcome of _read_data and read_load on the response
    \* ---- RobotGUI (SpecGui) ----
    lbl_pos,          \* position shown by the label lbl_pos
    lbl_load          \* load shown by the label lbl_load

ctlVars == <<motor, running, status_message, current_pos, current_load,
             elapsed, fg, pc, load, pos, stall_detected,
             stall_position, back_pos, tickSkipped, corrWrites, timedOut,
             cancelled, hardFailures>>
drvVars == <<dpc, dop, attempt, hist, sent, result, lockOwner>>
codecVars == <<scen, cpc, wire, resp, value>>
guiVars == <<lbl_pos, lbl_load>>
vars == <<ctlVars, drvVars, codecVars, guiVars>>

\* ------------------------------------------------------------------------
\* STServoDriver: results of the calls, from the outcomes of the attempts
\* ------------------------------------------------------------------------

\* write_position, one pass of the for loop: the inner try swallows
\* PacketTimeoutError and the function returns True; PacketChecksumError
\* reaches the outer handler, which continues with the next attempt.
WriteAttemptRetriesTimeout(outcome) ==
    IF outcome \in {"checksum", "timeout"} THEN "retry" ELSE "return"

WriteAttempt(outcome) ==
    IF outcome = "checksum" THEN "retry" ELSE "return"

\* _read_data, one pass: a timeout, a checksum error and a wrong data length
\* are all caught and retried; a good frame returns its data.
ReadAttemptKeepsShortData(outcome) ==
    IF outcome \in {"valid", "short"} THEN "return" ELSE "retry"

ReadAttempt(outcome) ==
    IF outcome = "valid" THEN "return" ELSE "retry"

\* ping, one pass: True on a decoded response, otherwise the next attempt.
PingAttemptAcceptsTimeout(outcome) ==
    IF outcome \in {"valid", "timeout"} THEN "return" ELSE "retry"

PingAttempt(outcome) ==
    IF outcome = "valid" THEN "return" ELSE "retry"

RECURSIVE WriteFrom(_, _)
WriteFrom(outs, a) ==
    IF a > retries THEN "raise"
    ELSE IF WriteAttempt(outs[a]) = "return" THEN "ok"
    ELSE WriteFrom(outs, a + 1)

\* write_position(...): "ok" (returns True) or "raise" (STServoError)
write_position(outs) == WriteFrom(outs, 1)

RECURSIVE ReadFrom(_, _)
ReadFrom(outs, a) ==
    IF a > retries THEN "none"
    ELSE IF ReadAttempt(outs[a]) = "return" THEN "data"
    ELSE ReadFrom(outs, a + 1)

\* _read_data(...): "data" (bytes) or "none" (None)
read_data(outs) == ReadFrom(outs, 1)

LoadDecodeMaskKeepsSignBit(sign_bit, raw_val) ==
    LET magnitude_mask == 2^(sign_bit + 1) - 1
        magnitude == raw_val % (magnitude_mask + 1)
        direction == IF (raw_val \div 2^sign_bit) % 2 = 1 THEN 0 - 1 ELSE 1
    IN  magnitude * direction

\* read_load, lines 313-317: magnitude = raw_val & ((1 << sign_bit) - 1),
\* negative exactly when raw_val & (1 << sign_bit) is not zero
LoadDecode(sign_bit, raw_val) ==
    LET magnitude_mask == 2^sign_bit - 1
        magnitude == raw_val % (magnitude_mask + 1)
        direction == IF (raw_val \div 2^sign_bit) % 2 = 1 THEN 0 - 1 ELSE 1
    IN  magnitude * direction

\* read_load: sign-magnitude decode of the raw register at load_sign_bit
read_load(res, raw) ==
    IF res = "none" THEN None ELSE LoadDecode(load_sign_bit, raw)

\* read_position: the raw register as an unsigned 16-bit value
read_position(res, raw) ==
    IF res = "none" THEN None ELSE raw % 65536

\* what the calls can give back over every run of attempts
WriteResults == {write_position(outs) : outs \in AttemptSeqs("write")}
ReadResults == {read_data(outs) : outs \in AttemptSeqs("read")}

\* ------------------------------------------------------------------------
\* Packet codec.  A byte is a number in 0..255, a packet a sequence of bytes.
\* ------------------------------------------------------------------------
HEADER == <<255, 255>>

RECURSIVE SumBytes(_)
SumBytes(bs) == IF bs = <<>> THEN 0 ELSE Head(bs) + SumBytes(Tail(bs))

Not8NoComplement(x) == x % 256

\* (~x) & 0xFF
Not8(x) == 255 - (x % 256)

\* the Python slice bs[a:b] (0-based, b exclusive, cut at the end of bs)
Slice(bs, a, b) == SubSeq(bs, a + 1, IF b < Len(bs) THEN b ELSE Len(bs))

format_packet_sums_all(servo_id, instruction, params) ==
    LET length_field == Len(params) + 2
        header == <<255, 255, servo_id % 256, length_field % 256,
                    instruction % 256>>
                  \o [i \in 1..Len(params) |-> params[i] % 256]
        checksum == Not8(SumBytes(header))
    IN  Append(header, checksum)

\* _format_packet: header, id, LENGTH = len(params) + 2, instruction, the
\* parameters, and the complement of the sum of everything after the header
format_packet(servo_id, instruction, params) ==
    LET length_field == Len(params) + 2
        header == <<255, 255, servo_id % 256, length_field % 256,
                    instruction % 256>>
                  \o [i \in 1..Len(params) |-> params[i] % 256]
        checksum == Not8(SumBytes(Slice(header, 2, Len(header))))
    IN  Append(header, checksum)

verify_length_only(packet) == Len(packet) >= 6

\* _verify_response_checksum: False below 6 bytes; else the last byte must
\* be the complement of the sum of packet[2:-1]
verify_response_checksum(packet) ==
    IF Len(packet) < 6 THEN FALSE
    ELSE LET rest_without_header == Slice(packet, 2, Len(packet) - 1)
             calc == Not8(SumBytes(rest_without_header) % 256)
             recv_checksum == packet[Len(packet)]
         IN  calc = recv_checksum

\* The resync loop (lines 187-196) reads the stream from its byte j on into
\* an empty `tail`, one byte at a time, keeping the last two, until the tail
\* is the header: the index of the first such pair, 0 when the stream ends
\* first (the reads come back empty until the timeout).
RECURSIVE FindHeader(_, _)
FindHeader(stream, j) ==
    IF j + 1 > Len(stream) THEN 0
    ELSE IF stream[j] = 255 /\ stream[j + 1] = 255 THEN j
    ELSE FindHeader(stream, j + 1)

\* Lines 168-203: the first two bytes are taken as the header; if they are
\* not 0xFF 0xFF the resync loop searches the bytes after them.  The index
\* of the header that gets framed, 0 for a timeout.
HeaderOffset(stream) ==
    IF Len(stream) < 2 THEN 0
    ELSE IF SubSeq(stream, 1, 2) = HEADER THEN 1
    ELSE FindHeader(stream, 3)

MismatchRejects(warn_id, warn_len) == warn_id \/ warn_len

\* Lines 221-225 and 230-236: an id or a data length other than the
\* expected one is logged and the packet goes on
MismatchIsFatal(warn_id, warn_len) == FALSE

Failure(kind, warn_id) ==
    [kind |-> kind, packet |-> <<>>, offset |-> 0,
     warn_id |-> warn_id, warn_len |-> FALSE]

\* _read_response_raw on the bytes that arrive before the timeout:
\* kind "packet" (the packet is returned), "timeout" (PacketTimeoutError)
\* or "checksum" (PacketChecksumError)
read_response_raw(stream, expected_id, expected_data_len) ==
    LET h == HeaderOffset(stream)
    IN  IF h = 0 \/ Len(stream) < h + 3 THEN Failure("timeout", FALSE)
        ELSE
        LET servo_id == stream[h + 2]
            length == stream[h + 3]
        IN  IF Len(stream) < h + 3 + length THEN Failure("timeout", FALSE)
            ELSE
            LET packet == HEADER \o SubSeq(stream, h + 2, h + 3 + length)
                warn_id == servo_id # expected_id % 256
                warn_len == length - 2 # expected_data_len
            IN  IF ~verify_response_checksum(packet)
                THEN Failure("checksum", warn_id)
                ELSE IF MismatchIsFatal(warn_id, warn_len)
                THEN Failure("mismatch", warn_id)
                ELSE [kind |-> "packet", packet |-> packet, offset |-> h,
                      warn_id |-> warn_id, warn_len |-> warn_len]

\* _read_data, line 266: data_bytes = pkt[5:5 + data_len]
data_bytes(pkt, data_len) == Slice(pkt, 5, 5 + data_len)

\* _read_data, one attempt: how it ends for the caller's retry loop
ReadOutcome(r, data_len) ==
    IF r.kind # "packet" THEN r.kind
    ELSE IF Len(data_bytes(r.packet, data_len)) # data_len THEN "short"
    ELSE "valid"

\* struct.unpack('<H', raw)
unpack_H(bs) == bs[1] + 256 * bs[2]

\* A response of the servo as the driver's docstrings give it:
\* 0xFF 0xFF ID LENGTH ERROR DATA... CHECKSUM, LENGTH = error + data +
\* checksum, CHECKSUM = ~(ID + LENGTH + ERROR + DATA...) & 0xFF
ResponseFrame(id, err, data) ==
    LET body == <<id, Len(data) + 2, err>> \o data
    IN  HEADER \o body \o <<Not8(SumBytes(body))>>

\* byte b with its bit k inverted
FlipBit(b, k) == IF (b \div 2^k) % 2 = 1 THEN b - 2^k ELSE b + 2^k

NoFlip == 0 - 1

\* the packet with bit k of its last byte inverted on the line
Corrupt(packet, k) ==
    IF k = NoFlip THEN packet
    ELSE [packet EXCEPT ![Len(packet)] = FlipBit(@, k)]

\* Inputs of the codec runs.
\*   ids        : an ordinary id and 0xFF
\*   third byte : instruction / error byte; 0, READ_INST, 0xFA
\*   bodies     : parameters / data; registers 0x0205, 0x0010, 0x0605,
\*                0x0805 in little-endian order, one lone byte, and five
\*                bytes that begin with 0xFF 0xFF
\*   garbage    : line noise ahead of the response
CodecIds == {1, 255}
ThirdBytes == {0, 2, 250}
Bodies == {<<>>, <<9>>, <<5, 2>>, <<16, 0>>, <<5, 6>>, <<5, 8>>,
           <<255, 255, 1, 2, 0>>}
Garbage == {<<>>, <<7>>, <<7, 8>>, <<7, 255>>, <<255>>}
Flips == {NoFlip} \cup (0..7)
ExpectedIds == {1, 2}
ExpectedLens == {0, 2}
SignBits == {load_sign_bit, load_sign_bit + 1}

\* a request of the driver looped back into its own decoder
LoopbackRuns ==
    [kind : {"loopback"}, id : CodecIds, third : ThirdBytes, body : Bodies,
     garbage : {<<>>}, flip : {NoFlip}, exp_id : {1}, exp_len : {2},
     sign_bit : {load_sign_bit}]

\* a response of the device, behind line noise, with or without a bit of
\* its checksum inverted
DeviceRuns ==
    [kind : {"device"}, id : CodecIds, third : ThirdBytes, body : Bodies,
     garbage : Garbage, flip : Flips, exp_id : ExpectedIds,
     exp_len : ExpectedLens, sign_bit : SignBits]

NoRun ==
    [kind |-> "none", id |-> 0, third |-> 0, body |-> <<>>, garbage |-> <<>>,
     flip |-> NoFlip, exp_id |-> 0, exp_len |-> 0, sign_bit |-> load_sign_bit]

NoResponse == Failure("none", FALSE)

NoValue == [outcome |-> "none", bytes |-> <<>>, load |-> None,
            position |-> None]

\* ------------------------------------------------------------------------
\* RobotController
\* ------------------------------------------------------------------------
Abs(x) == IF x < 0 THEN 0 - x ELSE x

\* Lines 111-114.  STEPS_PER_DEGREE = 4096/360, so in exact arithmetic
\*   current_deg     = current_pos * 360 / 4096
\*   target_deg      = floor(current_deg / 45) * 45
\*   target_back_pos = int(target_deg * 4096 / 360)
\* The double-precision evaluation of the source gives the same integer for
\* every 16-bit position (compared exhaustively, 0..65535).
BackOffTarget(p) ==
    LET target_deg == ((p * 360) \div (4096 * 45)) * 45
    IN  (target_deg * 4096) \div 360

Alive(t) == pc[t] \notin {"none", "done", "crashed"}

WhileConditionIgnoresFlag == TRUE

\* Line 84: the condition of the while loop
WhileCondition == running

EitherRead(l, p) == l # None \/ p # None

\* Line 97: both readings are usable
BothRead(l, p) == l # None /\ p # None

\* Line 102: the stall test
IsStall(l) == Abs(l) > STALL_THRESHOLD

ctlInit ==
    /\ motor = "none"
    /\ running = FALSE
    /\ status_message = "idle"
    /\ current_pos = 0
    /\ current_load = 0
    /\ elapsed = 0
    /\ fg = "new"
    /\ pc = [t \in Threads |-> "none"]
    /\ load = [t \in Threads |-> None]
    /\ pos = [t \in Threads |-> None]
    /\ stall_detected = [t \in Threads |-> FALSE]
    /\ stall_position = [t \in Threads |-> None]
    /\ back_pos = [t \in Threads |-> None]
    /\ tickSkipped = [t \in Threads |-> FALSE]
    /\ corrWrites = [t \in Threads |-> 0]
    /\ timedOut = [t \in Threads |-> FALSE]
    /\ cancelled = [t \in Threads |-> FALSE]
    /\ hardFailures = {}

drvIdle ==
    /\ dpc = [d \in Clients |-> "idle"]
    /\ dop = [d \in Clients |-> "none"]
    /\ attempt = [d \in Clients |-> 0]
    /\ hist = [d \in Clients |-> <<>>]
    /\ sent = [d \in Clients |-> 0]
    /\ result = [d \in Clients |-> "none"]
    /\ lockOwner = 0

codecIdle ==
    /\ scen = NoRun
    /\ cpc = "idle"
    /\ wire = <<>>
    /\ resp = NoResponse
    /\ value = NoValue

\* the labels are created with the text "----": no value shown yet
guiInit ==
    /\ lbl_pos = None
    /\ lbl_load = None

Init == ctlInit /\ drvIdle /\ codecIdle /\ guiInit

\* write_position on the driver in state m.  Once close() has closed the
\* port, ser.write raises the serial library's port-not-open error, which
\* neither _send_packet_raw nor write_position catches: the call raises.
WriteResultsOn(m) == IF m = "closed" THEN {"raise"} ELSE WriteResults

\* connect(): the constructor opens the port (it may fail), then the homing
\* write; any exception ends in the error status and False.  main goes on to
\* the GUI in both cases.
Connect ==
    /\ fg = "new"
    /\ fg' = "gui"
    /\ \E opened \in BOOLEAN, w \in WriteResults :
         IF ~opened
         THEN /\ status_message' = "error"
              /\ UNCHANGED <<motor, hardFailures>>
         ELSE /\ motor' = "open"
              /\ IF w = "ok"
                 THEN /\ status_message' = "connected"
                      /\ UNCHANGED hardFailures
                 ELSE /\ status_message' = "error"
                      /\ hardFailures' = hardFailures \cup {"homing"}
    /\ UNCHANGED <<running, current_pos, current_load, elapsed, pc,
                   load, pos, stall_detected, stall_position, back_pos,
                   tickSkipped, corrWrites, timedOut, cancelled>>
    /\ UNCHANGED <<drvVars, codecVars, guiVars>>

\* start_move(): returns at once when running is set; otherwise it sets
\* running and starts a new thread on _run_logic.
start_move ==
    /\ fg = "gui"
    /\ ~running
    /\ \E t \in Threads :
         /\ ~Alive(t)
         /\ \A u \in Threads : (~Alive(u)) => t <= u
         /\ running' = TRUE
         /\ pc' = [pc EXCEPT ![t] = "start"]
         /\ corrWrites' = [corrWrites EXCEPT ![t] = 0]
    /\ cancelled' = [t \in Threads |-> FALSE]
    /\ UNCHANGED <<motor, status_message, current_pos, current_load,
                   elapsed, fg, load, pos, stall_detected,
                   stall_position, back_pos, tickSkipped, timedOut,
                   hardFailures>>
    /\ UNCHANGED <<drvVars, codecVars, guiVars>>

\* stop_move()
stop_move ==
    /\ fg = "gui"
    /\ running' = FALSE
    /\ status_message' = "stopping"
    /\ cancelled' = [t \in Threads |-> cancelled[t] \/ pc[t] = "loop"]
    /\ UNCHANGED <<motor, current_pos, current_load, elapsed, fg,
                   pc, load, pos, stall_detected, stall_position, back_pos,
                   tickSkipped, corrWrites, timedOut, hardFailures>>
    /\ UNCHANGED <<drvVars, codecVars, guiVars>>

\* Time passes while a loop runs.  The loop only looks at the difference of
\* the clock and start_time, so the clock is kept as that difference and
\* stops once it is past the run-duration bound.
Tick ==
    /\ \E t \in Threads : Alive(t)
    /\ elapsed <= RUN_DURATION
    /\ elapsed' = elapsed + TickStep
    /\ UNCHANGED <<motor, running, status_message, current_pos, current_load,
                   fg, pc, load, pos, stall_detected, stall_position,
                   back_pos, tickSkipped, corrWrites, timedOut, cancelled,
                   hardFailures>>
    /\ UNCHANGED <<drvVars, codecVars, guiVars>>

\* ---- _run_logic ----

\* The frame of a thread that left _run_logic (return or exception): its
\* locals are gone, and so is what was observed of the run.
Leave(t, how) ==
    /\ pc' = [pc EXCEPT ![t] = how]
    /\ load' = [load EXCEPT ![t] = None]
    /\ pos' = [pos EXCEPT ![t] = None]
    /\ stall_detected' = [stall_detected EXCEPT ![t] = FALSE]
    /\ stall_position' = [stall_position EXCEPT ![t] = None]
    /\ back_pos' = [back_pos EXCEPT ![t] = None]
    /\ tickSkipped' = [tickSkipped EXCEPT ![t] = FALSE]
    /\ timedOut' = [timedOut EXCEPT ![t] = FALSE]
    /\ cancelled' = [cancelled EXCEPT ![t] = FALSE]

\* Lines 72-82: the motor check, the status, the primary move command and
\* start_time.  An exception of write_position leaves the thread.
RunBegin(t) ==
    /\ pc[t] = "start"
    /\ IF motor = "none"
       THEN /\ status_message' = "no_motor"
            /\ running' = FALSE
            /\ Leave(t, "done")
            /\ UNCHANGED elapsed
       ELSE /\ status_message' = "moving"
            /\ \E w \in WriteResultsOn(motor) :
                 IF w = "ok"
                 THEN /\ elapsed' = 0
                      /\ pc' = [pc EXCEPT ![t] = "loop"]
                      /\ UNCHANGED <<running, load, pos, stall_detected,
                                     stall_position, back_pos, tickSkipped,
                                     timedOut, cancelled>>
                 ELSE /\ Leave(t, "crashed")
                      /\ UNCHANGED <<running, elapsed>>
    /\ UNCHANGED <<motor, current_pos, current_load, fg, corrWrites,
                   hardFailures>>
    /\ UNCHANGED <<drvVars, codecVars, guiVars>>

\* Line 121 and lines 84-91: the end of the poll sleep, the while test and
\* the timeout check on elapsed_time.
LoopCheck(t) ==
    /\ pc[t] = "loop"
    /\ IF ~WhileCondition
       THEN /\ pc' = [pc EXCEPT ![t] = "after_loop"]
            /\ UNCHANGED <<status_message, timedOut>>
       ELSE IF elapsed > RUN_DURATION
            THEN /\ status_message' = "timeout"
                 /\ timedOut' = [timedOut EXCEPT ![t] = TRUE]
                 /\ pc' = [pc EXCEPT ![t] = "after_loop"]
            ELSE /\ pc' = [pc EXCEPT ![t] = "poll"]
                 /\ UNCHANGED <<status_message, timedOut>>
    /\ tickSkipped' = [tickSkipped EXCEPT ![t] = FALSE]
    /\ UNCHANGED <<motor, running, current_pos, current_load, elapsed, fg, load, pos, stall_detected, stall_position,
                   back_pos, corrWrites, cancelled, hardFailures>>
    /\ UNCHANGED <<drvVars, codecVars, guiVars>>

\* Lines 94-98: the two reads, the test for two usable readings, and the
\* first published field.  Without both readings the tick goes straight to
\* the sleep; its locals are dead then (the next tick overwrites them before
\* any use), so the model drops them and keeps only that the tick was skipped.
PollTick(t) ==
    /\ pc[t] = "poll"
    /\ motor # "closed"
    /\ \E lres \in ReadResults, lraw \in RawLoads,
          pres \in ReadResults, praw \in RawPositions :
         LET l == read_load(lres, lraw)
             p == read_position(pres, praw)
         IN  /\ tickSkipped' = [tickSkipped EXCEPT
                                   ![t] = (l = None \/ p = None)]
             /\ IF BothRead(l, p)
                THEN /\ load' = [load EXCEPT ![t] = l]
                     /\ pos' = [pos EXCEPT ![t] = p]
                     /\ current_load' = l
                     /\ pc' = [pc EXCEPT ![t] = "publish_pos"]
                ELSE /\ pc' = [pc EXCEPT ![t] = "loop"]
                     /\ UNCHANGED <<load, pos, current_load>>
    /\ UNCHANGED <<motor, running, status_message, current_pos, elapsed, fg, stall_detected, stall_position, back_pos,
                   corrWrites, timedOut, cancelled, hardFailures>>
    /\ UNCHANGED <<drvVars, codecVars, guiVars>>

\* Lines 99-107 (and 121): the second published field and the stall test.
CheckStall(t) ==
    /\ pc[t] = "publish_pos"
    /\ current_pos' = pos[t]
    /\ IF IsStall(load[t])
       THEN /\ status_message' = "stall"
            /\ stall_position' = [stall_position EXCEPT ![t] = pos[t]]
            /\ stall_detected' = [stall_detected EXCEPT ![t] = TRUE]
            /\ pc' = [pc EXCEPT ![t] = "corrective"]
            /\ UNCHANGED <<load, pos>>
       ELSE /\ pc' = [pc EXCEPT ![t] = "loop"]
            /\ load' = [load EXCEPT ![t] = None]
            /\ pos' = [pos EXCEPT ![t] = None]
            /\ UNCHANGED <<status_message, stall_position, stall_detected>>
    /\ UNCHANGED <<motor, running, current_load, elapsed, fg,
                   back_pos, tickSkipped, corrWrites, timedOut, cancelled,
                   hardFailures>>
    /\ UNCHANGED <<drvVars, codecVars, guiVars>>

\* Lines 109-119: the back-off target, the corrective write, the settle
\* sleep and the break.  An exception of write_position leaves the thread.
CorrectiveWrite(t) ==
    /\ pc[t] = "corrective"
    /\ corrWrites' = [corrWrites EXCEPT ![t] = 1]
    /\ \E w \in WriteResultsOn(motor) :
         IF w = "ok"
         THEN /\ pc' = [pc EXCEPT ![t] = "after_loop"]
              /\ back_pos' = [back_pos EXCEPT ![t] = BackOffTarget(pos[t])]
              /\ UNCHANGED <<load, pos, stall_detected, stall_position,
                             tickSkipped, timedOut, cancelled, hardFailures>>
         ELSE /\ Leave(t, "crashed")
              /\ hardFailures' = hardFailures \cup {"corrective"}
    /\ UNCHANGED <<motor, running, status_message, current_pos, current_load,
                   elapsed, fg>>
    /\ UNCHANGED <<drvVars, codecVars, guiVars>>

\* Lines 123-127
AfterLoop(t) ==
    /\ pc[t] = "after_loop"
    /\ status_message' = IF ~stall_detected[t] /\ running
                         THEN "done" ELSE status_message
    /\ running' = FALSE
    /\ Leave(t, "done")
    /\ UNCHANGED <<motor, current_pos, current_load, elapsed, fg,
                   corrWrites, hardFailures>>
    /\ UNCHANGED <<drvVars, codecVars, guiVars>>

run_logic(t) ==
    \/ RunBegin(t)
    \/ LoopCheck(t)
    \/ PollTick(t)
    \/ CheckStall(t)
    \/ CorrectiveWrite(t)
    \/ AfterLoop(t)

Next ==
    \/ Connect
    \/ start_move
    \/ stop_move
    \/ Tick
    \/ \E t \in Threads : run_logic(t)

Spec == Init /\ [][Next]_vars

\* ------------------------------------------------------------------------
\* Shutdown (SpecClose): the controller together with RobotController.close,
\* which main calls once the GUI main loop has returned
\* ------------------------------------------------------------------------

\* Line 130: close() clears the flag
close ==
    /\ fg = "gui"
    /\ fg' = "join"
    /\ running' = FALSE
    /\ UNCHANGED <<motor, status_message, current_pos, current_load, elapsed,
                   pc, load, pos, stall_detected, stall_position, back_pos,
                   tickSkipped, corrWrites, timedOut, cancelled, hardFailures>>
    /\ UNCHANGED <<drvVars, codecVars, guiVars>>

\* Lines 131-132: with a live thread, join(timeout=1.0) comes back when the
\* thread has ended or when the second is over, whichever is first; with
\* none, the line is skipped.  The second can run out only on a thread that
\* stays busy that long: one inside a poll tick, whose two reads take up to
\* `retries` attempts of 0.2 s each, 1.2 s in all.  From every other
\* position the thread reaches its end well within the second.
join ==
    /\ fg = "join"
    /\ \/ \A t \in Threads : ~Alive(t)
       \/ \E t \in Threads : pc[t] = "poll"
    /\ fg' = "closing"
    /\ UNCHANGED <<motor, running, status_message, current_pos, current_load,
                   elapsed, pc, load, pos, stall_detected, stall_position,
                   back_pos, tickSkipped, corrWrites, timedOut, cancelled,
                   hardFailures>>
    /\ UNCHANGED <<drvVars, codecVars, guiVars>>

\* Lines 133-134 and STServoDriver.close: the serial port is closed if there
\* is a driver
motor_close ==
    /\ fg = "closing"
    /\ fg' = "closed"
    /\ motor' = IF motor = "none" THEN "none" ELSE "closed"
    /\ UNCHANGED <<running, status_message, current_pos, current_load,
                   elapsed, pc, load, pos, stall_detected, stall_position,
                   back_pos, tickSkipped, corrWrites, timedOut, cancelled,
                   hardFailures>>
    /\ UNCHANGED <<drvVars, codecVars, guiVars>>

\* Lines 94-95 on a closed port: read_load transmits its request, ser.write
\* raises the port-not-open error, _read_data does not catch it and the
\* exception ends the thread
PollOnClosedPort(t) ==
    /\ pc[t] = "poll"
    /\ motor = "closed"
    /\ Leave(t, "crashed")
    /\ UNCHANGED <<motor, running, status_message, current_pos, current_load,
                   elapsed, fg, corrWrites, hardFailures>>
    /\ UNCHANGED <<drvVars, codecVars, guiVars>>

NextClose ==
    \/ Next
    \/ close
    \/ join
    \/ motor_close
    \/ \E t \in Threads : PollOnClosedPort(t)

SpecClose == Init /\ [][NextClose]_vars

\* ------------------------------------------------------------------------
\* RobotGUI (SpecGui): the controller together with the periodic refresh
\* ------------------------------------------------------------------------

\* update_gui, every 100 ms on the Tk thread: the labels are set from the
\* controller's fields, read one after the other with no lock
update_gui ==
    /\ fg = "gui"
    /\ lbl_pos' = current_pos
    /\ lbl_load' = current_load
    /\ UNCHANGED <<ctlVars, drvVars, codecVars>>

NextGui == Next \/ update_gui

SpecGui == Init /\ [][NextGui]_vars

\* ------------------------------------------------------------------------
\* STServoDriver, step by step: the retry loops, the lock and the port
\* ------------------------------------------------------------------------
Operations == {"ping", "read", "write"}

\* _read_data and write_position wrap send and receive in `with self.lock`;
\* ping calls _send_packet_raw and _read_response_raw with no lock of its own.
HoldsLockAcrossExchange(op) == op \in {"read", "write"}

\* what one pass of the operation's for loop does with the attempt's outcome
AttemptStep(op, outcome) ==
    CASE op = "ping" -> PingAttempt(outcome)
      [] op = "read" -> ReadAttempt(outcome)
      [] op = "write" -> WriteAttempt(outcome)

\* the value returned from inside the loop
Returned(op) ==
    CASE op = "ping" -> "true"
      [] op = "read" -> "data"
      [] op = "write" -> "ok"

\* what happens once the for loop runs out
Exhausted(op) ==
    CASE op = "ping" -> "false"
      [] op = "read" -> "none"
      [] op = "write" -> "raise"

\* The client has transmitted its packet and has not finished reading the
\* response: every port operation of the attempt (the buffer reset and the
\* write of Send, the byte reads that end with Recv) lies in this interval.
InExchange(d) == dpc[d] = "recv"

\* a client thread enters ping / _read_data / write_position
Call(d, op) ==
    /\ dpc[d] = "idle"
    /\ dop' = [dop EXCEPT ![d] = op]
    /\ attempt' = [attempt EXCEPT ![d] = 1]
    /\ hist' = [hist EXCEPT ![d] = <<>>]
    /\ sent' = [sent EXCEPT ![d] = 0]
    /\ result' = [result EXCEPT ![d] = "none"]
    /\ dpc' = [dpc EXCEPT ![d] = "send"]
    /\ UNCHANGED lockOwner
    /\ UNCHANGED <<ctlVars, codecVars, guiVars>>

\* _send_packet_raw: under the lock (an RLock: the owner re-enters it) the
\* input buffer is cleared and the packet written and flushed.  _read_data
\* and write_position took the lock before and keep it; ping's send gives it
\* back on return.
Send(d) ==
    /\ dpc[d] = "send"
    /\ lockOwner \in {0, d}
    /\ lockOwner' = IF HoldsLockAcrossExchange(dop[d]) THEN d ELSE lockOwner
    /\ sent' = [sent EXCEPT ![d] = @ + 1]
    /\ dpc' = [dpc EXCEPT ![d] = "recv"]
    /\ UNCHANGED <<dop, attempt, hist, result>>
    /\ UNCHANGED <<ctlVars, codecVars, guiVars>>

\* _read_response_raw reads the response off the port and ends in one of the
\* outcomes; the with block (if any) is left; then the loop returns, goes to
\* the next attempt, or runs out.
Recv(d) ==
    /\ dpc[d] = "recv"
    /\ lockOwner' = IF lockOwner = d THEN 0 ELSE lockOwner
    /\ \E o \in OutcomesOf(dop[d]) :
         /\ hist' = [hist EXCEPT ![d] = Append(@, o)]
         /\ IF AttemptStep(dop[d], o) = "return"
            THEN /\ result' = [result EXCEPT ![d] = Returned(dop[d])]
                 /\ dpc' = [dpc EXCEPT ![d] = "idle"]
                 /\ UNCHANGED attempt
            ELSE IF attempt[d] < retries
            THEN /\ attempt' = [attempt EXCEPT ![d] = @ + 1]
                 /\ dpc' = [dpc EXCEPT ![d] = "send"]
                 /\ UNCHANGED result
            ELSE /\ result' = [result EXCEPT ![d] = Exhausted(dop[d])]
                 /\ dpc' = [dpc EXCEPT ![d] = "idle"]
                 /\ UNCHANGED attempt
    /\ UNCHANGED <<dop, sent>>
    /\ UNCHANGED <<ctlVars, codecVars, guiVars>>

NextDrv ==
    \/ \E d \in Clients, op \in Operations : Call(d, op)
    \/ \E d \in Clients : Send(d)
    \/ \E d \in Clients : Recv(d)

SpecDrv == Init /\ [][NextDrv]_vars

\* ------------------------------------------------------------------------
\* Codec runs (SpecCodec): one packet through the encoder or off the line,
\* through _read_response_raw, and through _read_data / read_load /
\* read_position.  The controller and the retry loops stand still.
\* ------------------------------------------------------------------------
InitCodec ==
    /\ ctlInit /\ drvIdle /\ guiInit
    /\ scen \in LoopbackRuns \cup DeviceRuns
    /\ cpc = "start"
    /\ wire = <<>>
    /\ resp = NoResponse
    /\ value = NoValue

\* _send_packet_raw: the request is formatted and written; the bytes come
\* back unchanged
Encode ==
    /\ cpc = "start" /\ scen.kind = "loopback"
    /\ wire' = format_packet(scen.id, scen.third, scen.body)
    /\ cpc' = "wire"
    /\ UNCHANGED <<scen, resp, value>>
    /\ UNCHANGED <<ctlVars, drvVars, guiVars>>

\* the device answers: noise, then its response frame, all before the
\* read deadline
Arrive ==
    /\ cpc = "start" /\ scen.kind = "device"
    /\ wire' = scen.garbage
                \o Corrupt(ResponseFrame(scen.id, scen.third, scen.body),
                           scen.flip)
    /\ cpc' = "wire"
    /\ UNCHANGED <<scen, resp, value>>
    /\ UNCHANGED <<ctlVars, drvVars, guiVars>>

\* _read_response_raw(expected_id, expected_data_len)
Decode ==
    /\ cpc = "wire"
    /\ resp' = read_response_raw(wire, scen.exp_id, scen.exp_len)
    /\ cpc' = "decoded"
    /\ UNCHANGED <<scen, wire, value>>
    /\ UNCHANGED <<ctlVars, drvVars, guiVars>>

\* _read_data(servo_id, address, 2) cuts the data out of the response, and
\* read_load / read_position unpack and decode it
Parse ==
    /\ cpc = "decoded" /\ scen.exp_len = 2
    /\ LET outcome == ReadOutcome(resp, scen.exp_len)
           bytes == data_bytes(resp.packet, scen.exp_len)
       IN  value' =
             IF outcome = "valid"
             THEN [outcome |-> outcome, bytes |-> bytes,
                   load |-> LoadDecode(scen.sign_bit, unpack_H(bytes)),
                   position |-> read_position("data", unpack_H(bytes))]
             ELSE [NoValue EXCEPT !.outcome = outcome]
    /\ cpc' = "parsed"
    /\ UNCHANGED <<scen, wire, resp>>
    /\ UNCHANGED <<ctlVars, drvVars, guiVars>>

NextCodec == Encode \/ Arrive \/ Decode \/ Parse

SpecCodec == InitCodec /\ [][NextCodec]_vars

\* ========================================================================
\* Properties
\* ========================================================================

\* the thread leaves _run_logic in this step, by return or by exception
Finishes(t) == Alive(t) /\ ~Alive(t)'

\* a write_position call is made in this step: the primary move of RunBegin
\* or the corrective move of CorrectiveWrite
WriteIssued ==
    \E t \in Threads :
        \/ pc[t] = "start" /\ motor # "none" /\ pc'[t] # "start"
        \/ pc[t] = "corrective" /\ pc'[t] # "corrective"

\* C1: the first tick with two good readings and |load| > STALL_THRESHOLD
\* ends polling: the stall position is that tick's position, the thread goes
\* on to exactly one corrective write and to no further read, and it finishes
\* with running = false; a tick with |load| <= STALL_THRESHOLD triggers no
\* corrective write.
C1_StallEndsPolling ==
    [][\A t \in Threads :
         /\ (pc[t] = "publish_pos" /\ pc'[t] # "publish_pos"
               /\ Abs(load[t]) > STALL_THRESHOLD)
              => (pc'[t] = "corrective" /\ stall_position'[t] = pos[t])
         /\ (pc[t] = "publish_pos" /\ pc'[t] # "publish_pos"
               /\ Abs(load[t]) <= STALL_THRESHOLD)
              => (pc'[t] = "loop" /\ corrWrites'[t] = 0)
         /\ stall_detected[t]
              => pc'[t] \in {"corrective", "after_loop", "done", "crashed"}
         /\ (stall_detected[t] /\ Finishes(t))
              => (corrWrites'[t] = 1 /\ running' = FALSE)
      ]_vars

\* C2: a loop that left through the timeout has issued a corrective write
\* when it finishes.
C2_TimeoutStillCorrects ==
    [][\A t \in Threads :
         (timedOut[t] /\ Finishes(t)) => corrWrites[t] = 1]_vars

\* round(d / 512), ties to the even integer
RoundDiv512(d) ==
    LET q == d \div 512
        r == d % 512
    IN  IF r < 256 THEN q
        ELSE IF r > 256 THEN q + 1
        ELSE IF q % 2 = 0 THEN q ELSE q + 1

\* the corrective target of the rounding policy: start + k * 512 with
\* k = round((current - start) / 512), k = 0 replaced by +1 or -1
RoundedTarget(start, current) ==
    LET d == current - start
        k == RoundDiv512(d)
        k1 == IF k # 0 THEN k ELSE IF d >= 0 THEN 1 ELSE 0 - 1
    IN  start + k1 * 512

\* C3: the corrective target written on recovery is the start position plus
\* the rounded, never-zero multiple of 512 steps (start 1024: current 1554
\* gives 1536 and current 1034 gives 1536).
C3_TargetIsRoundedFromStart ==
    \A t \in Threads :
        back_pos[t] # None
            => back_pos[t] = RoundedTarget(HOME_POSITION, stall_position[t])

\* C4: the target of the corrective write differs from the start position
\* 1024 the move began from.
C4_CorrectiveMoveIsNoNoOp ==
    \A t \in Threads : back_pos[t] # None => back_pos[t] # HOME_POSITION

\* C5: once write_position has raised in the homing or in the corrective
\* move, running is false and the status reports the failure, and no further
\* write_position call is made.
C5_HardWriteFailureIsFatal ==
    [][/\ hardFailures' # {} => (~running' /\ status_message' = "error")
       /\ hardFailures # {} => ~WriteIssued
      ]_vars

\* C6: a loop that stop_move caught between two ticks (with no start_move
\* after it) makes no further read and no corrective write, and it finishes
\* with running = false.
C6_CancelSkipsRecovery ==
    [][\A t \in Threads :
         cancelled[t]
           => /\ pc'[t] \in {"loop", "after_loop", "done"}
              /\ corrWrites'[t] = 0
              /\ Finishes(t) => ~running'
      ]_vars

\* C6, its case: a cancelled loop has left the while loop
C6_Witness ==
    \E t \in Threads : cancelled[t] /\ pc[t] = "after_loop"

\* C7: a tick on which read_load or read_position returned None publishes
\* nothing, writes nothing, sets no stall status and goes on to the next tick.
C7_FailedReadSkipsTick ==
    [][\A t \in Threads :
         (pc[t] = "poll" /\ tickSkipped'[t])
           => /\ current_pos' = current_pos
              /\ current_load' = current_load
              /\ status_message' = status_message
              /\ corrWrites' = corrWrites
              /\ running' = running
              /\ pc'[t] = "loop"
      ]_vars

\* C7, its case: a loop back at the sleep after a tick with a failed read,
\* with readings of an earlier tick published
C7_Witness ==
    \E t \in Threads :
        tickSkipped[t] /\ pc[t] = "loop" /\ current_load # 0 /\ running

\* C8: at most one _run_logic thread is alive.
C8_SingleLoop == Cardinality({t \in Threads : Alive(t)}) <= 1

\* C9: between a thread's transmit and the end of its response read no other
\* thread operates on the port: no two exchanges overlap.
C9_ExchangeIsAtomic ==
    \A d, e \in Clients : (InExchange(d) /\ InExchange(e)) => d = e

\* C10: write_position returns success on the first attempt that ends with a
\* checksum-valid response or a timeout, retries only after a checksum
\* mismatch, transmits at most `retries` packets, and raises exactly when
\* every one of the `retries` attempts ended in a checksum mismatch.
C10_WriteRetryPolicy ==
    \A d \in Clients :
        dop[d] = "write" =>
            LET n == Len(hist[d])
            IN  /\ sent[d] <= retries
                /\ n <= sent[d] /\ sent[d] <= n + 1
                /\ \A i \in 1..(n - 1) : hist[d][i] = "checksum"
                /\ dpc[d] # "idle" =>
                     \A i \in 1..n : hist[d][i] = "checksum"
                /\ dpc[d] = "idle" =>
                     /\ sent[d] = n
                     /\ result[d] \in {"ok", "raise"}
                     /\ result[d] = "ok" <=> hist[d][n] \in {"valid", "timeout"}
                     /\ result[d] = "raise" <=>
                          (n = retries /\ \A i \in 1..n : hist[d][i] = "checksum")

\* C10, its case: a write that was retried after a checksum mismatch and
\* then accepted an attempt that timed out
C10_Witness ==
    \E d \in Clients :
        /\ dop[d] = "write" /\ dpc[d] = "idle" /\ result[d] = "ok"
        /\ hist[d] = <<"checksum", "timeout">>

C12_PingPolicy ==
    \A d \in Clients :
        dop[d] = "ping" =>
            LET n == Len(hist[d])
            IN  /\ sent[d] <= retries
                /\ n <= sent[d] /\ sent[d] <= n + 1
                /\ \A i \in 1..(n - 1) : hist[d][i] \in {"timeout", "checksum"}
                /\ dpc[d] = "idle" =>
                     /\ sent[d] = n /\ n >= 1
                     /\ result[d] \in {"true", "false"}
                     /\ result[d] = "true" <=>
                          \E i \in 1..n : hist[d][i] = "valid"
                     /\ result[d] = "false" <=>
                          /\ n = retries
                          /\ \A i \in 1..n :
                                hist[d][i] \in {"timeout", "checksum"}

\* C12, its case: a ping answered False after a timeout and two checksum
\* mismatches
C12_Witness ==
    \E d \in Clients :
        /\ dop[d] = "ping" /\ dpc[d] = "idle" /\ result[d] = "false"
        /\ hist[d] = <<"timeout", "checksum", "checksum">>

\* the response has been through _read_response_raw
Decoded == cpc \in {"decoded", "parsed"}

\* C13: a request formatted by _format_packet for any id, instruction and
\* parameter bytes and fed unchanged into _read_response_raw comes back as a
\* packet with the same id, the instruction where the error byte sits, and
\* the parameters as its data.
C13_RoundTrip ==
    (scen.kind = "loopback" /\ Decoded) =>
        /\ resp.kind = "packet"
        /\ Len(resp.packet) = Len(scen.body) + 6
        /\ resp.packet[3] = scen.id
        /\ resp.packet[5] = scen.third
        /\ SubSeq(resp.packet, 6, Len(resp.packet) - 1) = scen.body

\* C13, its case: id 0xFF and parameters that begin with 0xFF 0xFF went
\* through the encoder and the decoder
C13_Witness ==
    /\ scen.kind = "loopback" /\ cpc = "decoded" /\ resp.kind = "packet"
    /\ scen.id = 255 /\ scen.body = <<255, 255, 1, 2, 0>>

\* C14: _format_packet yields 0xFF 0xFF, the id, len(params) + 2, the
\* instruction, the parameters and one checksum byte, the complement of the
\* sum of the bytes from the id to the last parameter: the bytes from the id
\* to the checksum add up to 0xFF modulo 256.
C14_EncodeLayout ==
    (scen.kind = "loopback" /\ cpc # "start") =>
        LET n == Len(scen.body)
        IN  /\ Len(wire) = n + 6
            /\ SubSeq(wire, 1, 5) = <<255, 255, scen.id, n + 2, scen.third>>
            /\ SubSeq(wire, 6, n + 5) = scen.body
            /\ wire[n + 6] \in 0..255
            /\ wire[n + 6] = 255 - (SumBytes(SubSeq(wire, 3, n + 5)) % 256)
            /\ SumBytes(SubSeq(wire, 3, n + 6)) % 256 = 255

\* C14, its case: a request with five parameter bytes has been formatted
C14_Witness ==
    /\ scen.kind = "loopback" /\ cpc = "wire" /\ Len(scen.body) = 5
    /\ scen.third = 2

\* C15: a well-formed response with any one bit of its checksum byte
\* inverted makes _read_response_raw fail with a checksum mismatch, and a
\* packet that is returned always has a checksum that verifies.
C15_ChecksumBitFlipRejected ==
    /\ (scen.kind = "device" /\ Decoded /\ scen.garbage = <<>>
          /\ scen.flip # NoFlip) => resp.kind = "checksum"
    /\ resp.kind = "packet" =>
          SumBytes(SubSeq(resp.packet, 3, Len(resp.packet))) % 256 = 255

\* C15, its case: the top bit of the checksum of a two-byte response was
\* inverted and the decoder reported a checksum mismatch
C15_Witness ==
    /\ scen.kind = "device" /\ cpc = "decoded" /\ scen.garbage = <<>>
    /\ scen.flip = 7 /\ Len(scen.body) = 2 /\ resp.kind = "checksum"

\* C16: behind a garbage prefix without two consecutive 0xFF bytes,
\* _read_response_raw never returns a packet framed anywhere else than at
\* the header of the response that follows the garbage.
C16_NoFalsePositive ==
    (scen.kind = "device" /\ resp.kind = "packet") =>
        resp.offset = Len(scen.garbage) + 1

\* C17: a garbage prefix of any length without a 0xFF byte, followed by a
\* complete well-formed response, is skipped: the response is returned.
C17_GarbagePrefixSkipped ==
    (/\ scen.kind = "device" /\ Decoded /\ scen.flip = NoFlip
     /\ \A i \in 1..Len(scen.garbage) : scen.garbage[i] # 255) =>
        /\ resp.kind = "packet"
        /\ resp.packet = ResponseFrame(scen.id, scen.third, scen.body)

\* C18: a completely received response with a valid checksum is returned
\* whatever its id and its data length are; a difference from the expected
\* id or the expected data length only raises a warning.
C18_MismatchOnlyWarns ==
    (/\ scen.kind = "device" /\ Decoded
     /\ scen.garbage = <<>> /\ scen.flip = NoFlip) =>
        /\ resp.kind = "packet"
        /\ resp.packet = wire
        /\ resp.warn_id <=> scen.id # scen.exp_id
        /\ resp.warn_len <=> Len(scen.body) # scen.exp_len

\* C18, its case: a response from id 255 with five data bytes was returned
\* to a caller that expected id 2 and two data bytes
C18_Witness ==
    /\ scen.kind = "device" /\ cpc = "decoded" /\ resp.kind = "packet"
    /\ scen.id = 255 /\ scen.exp_id = 2
    /\ Len(scen.body) = 5 /\ scen.exp_len = 2
    /\ resp.warn_id /\ resp.warn_len

\* the 16-bit little-endian register the decoded load was unpacked from
RawOf(bs) == bs[1] + 256 * bs[2]

\* x is the sign-magnitude reading of raw at sign bit s: raw splits into the
\* bits above s, bit s and the magnitude below it; x is the magnitude,
\* negative when bit s is 1, and the bits above s do not matter
SignMagnitude(raw, s, x) ==
    /\ Abs(x) < 2^s
    /\ \E hi \in 0..(65535 \div 2^(s + 1)), d \in 0..1 :
         /\ raw = hi * 2^(s + 1) + d * 2^s + Abs(x)
         /\ d = 1 => x <= 0
         /\ d = 0 => x >= 0

\* C19 as stated: read_load is the sign-magnitude decode at the sign bit,
\* and with sign bit 10 raw 0x0205 gives -517 and raw 0x0010 gives +16.
C19_LoadDecodeAsStated ==
    value.outcome = "valid" =>
        LET raw == RawOf(value.bytes)
        IN  /\ SignMagnitude(raw, scen.sign_bit, value.load)
            /\ (scen.sign_bit = 10 /\ raw = 517) => value.load = 0 - 517
            /\ (scen.sign_bit = 10 /\ raw = 16) => value.load = 16

\* C19, amended: read_load is the sign-magnitude decode at the sign bit;
\* with sign bit 10 raw 0x0205 (bit 10 clear) gives +517, raw 0x0605 (bit 10
\* set) gives -517, raw 0x0805 (only bit 11 set) gives +5 and raw 0x0010
\* gives +16.
C19_LoadDecode ==
    value.outcome = "valid" =>
        LET raw == RawOf(value.bytes)
        IN  /\ SignMagnitude(raw, scen.sign_bit, value.load)
            /\ (scen.sign_bit = 10 /\ raw = 517) => value.load = 517
            /\ (scen.sign_bit = 10 /\ raw = 1541) => value.load = 0 - 517
            /\ (scen.sign_bit = 10 /\ raw = 2053) => value.load = 5
            /\ (scen.sign_bit = 10 /\ raw = 16) => value.load = 16

\* C19, its case: raw 0x0605 read at sign bit 10 came out as -517
C19_Witness ==
    /\ cpc = "parsed" /\ value.outcome = "valid" /\ scen.sign_bit = 10
    /\ scen.garbage = <<>> /\ scen.flip = NoFlip /\ scen.body = <<5, 6>>
    /\ value.load = 0 - 517

\* the (position, load) pairs that one poll tick can publish, the pair the
\* fields hold before the first tick, and the labels before the first refresh
ConsistentPairs ==
    {<<None, None>>, <<0, 0>>} \cup
    {<<read_position("data", p), read_load("data", l)>> :
        p \in RawPositions, l \in RawLoads}

\* C20: the pair (current_pos, current_load) shown by the GUI always comes
\* from one and the same poll tick.
C20_NoTornPair == <<lbl_pos, lbl_load>> \in ConsistentPairs

\* the DATA field of a response: the bytes between ERROR and CHECKSUM
DataField(packet) == SubSeq(packet, 6, Len(packet) - 1)

\* C21: the bytes a register read of width data_len returns are exactly the
\* first data_len bytes of the DATA field of the response; they never hold
\* the checksum byte, also when the response has fewer data bytes than asked.
C21_DataInsideDataField ==
    value.outcome = "valid" =>
        /\ Len(DataField(resp.packet)) >= scen.exp_len
        /\ value.bytes = SubSeq(DataField(resp.packet), 1, scen.exp_len)

\* C22: the status a run leaves behind tells why its loop ended: a run that
\* left the loop through the 10 s timeout, with no stop in between, ends
\* with the timeout status, and the normal-completion status is only left
\* behind by a run that neither timed out nor stalled.
C22_FinalStatusTellsWhy ==
    [][\A t \in Threads :
          (pc[t] = "after_loop" /\ Finishes(t)) =>
              /\ (timedOut[t] /\ running) => status_message' = "timeout"
              /\ status_message' = "done" =>
                    (~timedOut[t] /\ ~stall_detected[t])]_vars

\* the thread calls into the driver in this step: the primary write of line
\* 79, the reads of lines 94-95 or the corrective write of line 117
DriverOperation(t) ==
    /\ pc[t] \in {"start", "poll", "corrective"}
    /\ pc'[t] # pc[t]
    /\ ~(pc[t] = "start" /\ motor = "none")

\* C23: once close() has closed the serial port, no _run_logic thread calls
\* read_load, read_position or write_position on it any more.
C23_NoDriverOperationAfterClose ==
    [][\A t \in Threads : motor = "closed" => ~DriverOperation(t)]_vars

=============================================================================
